---- MODULE Spec2Model ----
(***************************************************************************)
(* Model of the HomePage component of the video studio page                *)
(* (src/unnamed/part_000): the capture controller behind handleRender      *)
(* (MediaRecorder session, progress sampler, deferred stop timer, object   *)
(* URL life cycle) and the requestAnimationFrame preview loop.             *)
(*                                                                         *)
(* Time is in milliseconds.  Each session carries elapsed, the value of    *)
(* performance.now() - startTime, and time advances in steps of TimeStep.  *)
(* A timer callback runs in the first step at or after its due time, never *)
(* early; callbacks due in the same step run in any order.                 *)
(***************************************************************************)
EXTENDS Integers, Sequences, FiniteSets, TLC

\* ------------------------------------------------------------------ bounds
MaxSessions == 2        \* start requests that reach recorder.start()
MaxSegments == 2        \* dataavailable events one recorder delivers
StepPeriods == 16       \* sampler periods in one step of time
MaxFrames == 5          \* animation frame requests explored
MaxEdits == 2           \* parameter edits that restart the preview loop
MaxTicks == 4           \* frame times explored: 0, FrameStepMs, ..., MaxTicks * FrameStepMs
MaxStops == 4           \* stops of the longest palette explored

\* ------------------------------------------------------- program constants
MinDuration == 3        \* <input type="range" min={3}>
MaxSliderDuration == 12 \* <input type="range" max={12}>
DefaultDuration == 6    \* useState(6)
SamplePeriod == 100     \* window.setInterval(..., 100)
StopGrace == 200        \* window.setTimeout(..., targetDuration + 200)
MsPerSecond == 1000     \* targetDuration = duration * 1000
FullPercent == 100      \* Math.min(100, ...), setProgress(100)

NULL == 0                \* videoUrl of useState(null): no object URL (URLs are 1, 2, ...)
NoError == "null"        \* error of useState(null)
VP9 == "video/webm;codecs=vp9"
VP8 == "video/webm;codecs=vp8"
WEBM == "video/webm"
MimeTypes == {VP9, VP8, WEBM}
Durations == {MinDuration, DefaultDuration}   \* slider values explored
Sizes == {0, 1}          \* Blob.size of a delivered segment: empty or not
TimeStep == StepPeriods * SamplePeriod   \* granularity of the clock
FrameStepMs == 2000      \* milliseconds between the frame times explored

ErrCanvas == "Canvas unavailable. Reload and try again."
ErrStream == "Unable to capture canvas stream."
ErrRecorder == "MediaRecorder not supported in this browser."

VARIABLES
    mounted,        \* the component is mounted
    duration,       \* useState(6): seconds
    videoUrl,       \* useState(null): index into urls, or NULL
    isRendering,    \* useState(false)
    progress,       \* useState(0): a rational [n, d] of percent
    error,          \* useState(null)
    sessions,       \* one record per closure of handleRender that started a recorder
    urls,           \* object URLs created so far: the blob and the revocations
    startResult,    \* what the start request that was the last step did
    anim,           \* the preview loop: see AnimInit
    surface         \* the 2D context of the preview canvas and the last frame: see SurfaceInit

capVars == <<mounted, duration, videoUrl, isRendering, progress, error,
             sessions, urls, startResult>>
vars == <<mounted, duration, videoUrl, isRendering, progress, error,
          sessions, urls, startResult, anim, surface>>

\* ------------------------------------------------------------ arithmetic
RECURSIVE GCD(_, _)
GCD(a, b) == IF b = 0 THEN a ELSE GCD(b, a % b)

\* The number n/d (d > 0) in lowest terms: JavaScript numbers, kept exact.
Ratio(n, d) == LET g == GCD(n, d) IN [n |-> n \div g, d |-> d \div g]

Whole(k) == [n |-> k, d |-> 1]

RLeq(a, b) == a.n * b.d <= b.n * a.d

\* Mutant: the cap is missing.
MathMinNoCap(a, b) == b

MathMin(a, b) == IF RLeq(a, b) THEN a ELSE b

\* Math.min(100, (elapsed / targetDuration) * 100), line 275.
Pct(elapsed, targetDuration) ==
    MathMin(Whole(FullPercent), Ratio(elapsed * FullPercent, targetDuration))

RECURSIVE Flatten(_)
Flatten(ss) == IF ss = <<>> THEN <<>> ELSE Head(ss) \o Flatten(Tail(ss))

\* ----------------------------------------------------- encoding service
\* The bytes of the k-th segment recorder s delivers: size copies of a tag
\* that names the recorder and the position.
SegmentData(s, k, size) == [i \in 1..size |-> 10 * s + k]

\* new Blob(chunks, {type}): the chunks' bytes in order, and the type.
NewBlob(chunks, type) == [data |-> Flatten(chunks), type |-> type]

\* Mutant: the two codec queries are in the other order.
NegotiateVP8First(present, supported) ==
    IF present /\ VP8 \in supported THEN VP8
    ELSE IF present /\ VP9 \in supported THEN VP9
    ELSE WEBM

\* The IIFE of lines 224-234: the first supported entry of the list.
NegotiateMimeType(present, supported) ==
    IF present /\ VP9 \in supported THEN VP9
    ELSE IF present /\ VP8 \in supported THEN VP8
    ELSE WEBM

\* new MediaRecorder(stream, {mimeType}) throws when the constructor is
\* absent (ReferenceError) or the type is not supported (NotSupportedError).
ConstructorThrows(present, supported, mimeType) ==
    ~present \/ mimeType \notin supported

\* ------------------------------------------------------------ object URLs
\* URL.revokeObjectURL(u): the URL no longer holds its blob.
Released == [data |-> <<>>, type |-> "released"]

Revoke(us, u) == [us EXCEPT ![u].revoked = @ + 1, ![u].blob = Released]

\* URL.createObjectURL(blob): the new URL is the next index.
CreateObjectURL(us, blob, s) ==
    Append(us, [blob |-> blob, session |-> s, revoked |-> 0])

\* The updater of setVideoUrl in handleRender, lines 247-250: its side effect.
ClearVideoUrlUpdater(us, current) ==
    IF current # NULL THEN Revoke(us, current) ELSE us

\* The cleanup of the effect on [videoUrl], lines 195-201: runs with the
\* value of the render it closed over, when videoUrl changes and on unmount.
VideoUrlCleanup(us, old) ==
    IF old # NULL THEN Revoke(us, old) ELSE us

VideoUrlEffect(us, old, new) ==
    IF old # new THEN VideoUrlCleanup(us, old) ELSE us

\* A state setter called after unmount is dropped by React.
SetState(old, new) == IF mounted THEN new ELSE old

\* ---------------------------------------------------------------- sessions
Started == DOMAIN sessions

Elapsed(s) == sessions[s].elapsed

RecorderState(s) ==
    IF sessions[s].phase = "recording" THEN "recording" ELSE "inactive"

TimerPending(s) == sessions[s].progressInterval \/ sessions[s].stopTimeout

\* The delay of window.setTimeout, line 287.
StopDelay(s) == sessions[s].targetDuration + StopGrace

NoStart == [outcome |-> "none", canvas |-> TRUE, stream |-> TRUE,
            present |-> TRUE, supported |-> {}, mimeType |-> WEBM]

CaptureInit ==
    /\ mounted = TRUE
    /\ duration = DefaultDuration
    /\ videoUrl = NULL
    /\ isRendering = FALSE
    /\ progress = Whole(0)
    /\ error = NoError
    /\ sessions = <<>>
    /\ urls = <<>>
    /\ startResult = NoStart

\* ------------------------------------------------------------ handleRender
\* What a start request did, the inputs it read before it returned, and the
\* value of its constant mimeType when it got as far as line 224.
StartRecord(outcome, canvas, stream, present, supported) ==
    LET readStream == outcome \in {"noStream", "noRecorder", "started"}
        readService == outcome \in {"noRecorder", "started"}
    IN  [outcome |-> outcome,
         canvas |-> IF outcome = "ignored" THEN TRUE ELSE canvas,
         stream |-> IF readStream THEN stream ELSE TRUE,
         present |-> IF readService THEN present ELSE TRUE,
         supported |-> IF readService /\ present THEN supported ELSE {},
         mimeType |-> IF readService THEN NegotiateMimeType(present, supported)
                      ELSE WEBM]

NewSession(mimeType) ==
    [elapsed |-> 0,
     sampled |-> TRUE,
     targetDuration |-> duration * MsPerSecond,
     mimeType |-> mimeType,
     recordedChunks |-> <<>>,
     delivered |-> <<>>,
     phase |-> "recording",
     stopCalls |-> 0,
     progressInterval |-> TRUE,
     stopTimeout |-> TRUE]

\* What is left of a session once its stop completion has run: nothing
\* reads its segment buffer or its type again.
Finalised(sess) ==
    [sess EXCEPT !.phase = "stopped", !.recordedChunks = <<>>, !.delivered = <<>>,
                 !.mimeType = WEBM]

\* What is left of a finalised session once its timers are gone: nothing
\* reads its clock again.
Retired(sess) ==
    IF sess.phase = "stopped" /\ ~sess.progressInterval /\ ~sess.stopTimeout
    THEN [sess EXCEPT !.elapsed = 0, !.targetDuration = 0, !.sampled = TRUE]
    ELSE sess

\* Mutant: setIsRendering(true) of line 251 is missing.
BeginSessionNotRendering(mimeType) ==
    /\ error' = NoError
    /\ videoUrl' = NULL
    /\ urls' = VideoUrlEffect(ClearVideoUrlUpdater(urls, videoUrl), videoUrl, NULL)
    /\ progress' = Whole(0)
    /\ sessions' = Append(sessions, NewSession(mimeType))
    /\ UNCHANGED isRendering

\* Mutant: the previous result is kept until the new one replaces it.
BeginSessionKeepsResult(mimeType) ==
    /\ error' = NoError
    /\ isRendering' = TRUE
    /\ progress' = Whole(0)
    /\ sessions' = Append(sessions, NewSession(mimeType))
    /\ UNCHANGED <<videoUrl, urls>>

\* Lines 246-288: the recorder was constructed.
BeginSession(mimeType) ==
    /\ error' = NoError
    /\ videoUrl' = NULL
    /\ urls' = VideoUrlEffect(ClearVideoUrlUpdater(urls, videoUrl), videoUrl, NULL)
    /\ isRendering' = TRUE
    /\ progress' = Whole(0)
    /\ sessions' = Append(sessions, NewSession(mimeType))

\* Mutant: the resets of lines 246-252 run before the checks.
FailStartAfterReset(message) ==
    /\ error' = message
    /\ videoUrl' = NULL
    /\ urls' = VideoUrlEffect(ClearVideoUrlUpdater(urls, videoUrl), videoUrl, NULL)
    /\ progress' = Whole(0)
    /\ UNCHANGED <<isRendering, sessions>>

\* Lines 212-244: an early return after setError.
FailStart(message) ==
    /\ error' = message
    /\ UNCHANGED <<videoUrl, urls, isRendering, progress, sessions>>

\* Mutant: the guard on isRendering of line 205 is missing.
StartOutcomeUnguarded(canvas, stream, present, supported) ==
    IF ~canvas THEN "noCanvas"
    ELSE IF ~stream THEN "noStream"
    ELSE IF ConstructorThrows(present, supported,
                              NegotiateMimeType(present, supported))
    THEN "noRecorder"
    ELSE "started"

\* Mutant: the constructor's exception is not caught as a failed start.
StartOutcomeNoCatch(canvas, stream, present, supported) ==
    IF isRendering THEN "ignored"
    ELSE IF ~canvas THEN "noCanvas"
    ELSE IF ~stream THEN "noStream"
    ELSE "started"

\* The path handleRender takes, lines 205-244.  canvas: canvasRef.current
\* is set; stream: captureStream returned a stream; present, supported: the
\* encoding service.
StartOutcome(canvas, stream, present, supported) ==
    IF isRendering THEN "ignored"
    ELSE IF ~canvas THEN "noCanvas"
    ELSE IF ~stream THEN "noStream"
    ELSE IF ConstructorThrows(present, supported,
                              NegotiateMimeType(present, supported))
    THEN "noRecorder"
    ELSE "started"

\* handleRender, lines 203-288.
HandleRender(canvas, stream, present, supported) ==
    LET outcome == StartOutcome(canvas, stream, present, supported)
    IN  /\ mounted
        /\ outcome = "started" => Len(sessions) < MaxSessions
        /\ CASE outcome = "ignored" ->
                  UNCHANGED <<error, videoUrl, urls, isRendering, progress, sessions>>
             [] outcome = "noCanvas" -> FailStart(ErrCanvas)
             [] outcome = "noStream" -> FailStart(ErrStream)
             [] outcome = "noRecorder" -> FailStart(ErrRecorder)
             [] outcome = "started" ->
                  BeginSession(NegotiateMimeType(present, supported))
        /\ startResult' = StartRecord(outcome, canvas, stream, present, supported)
        /\ UNCHANGED <<mounted, duration, anim, surface>>

\* setDuration(Number(event.target.value)), the range input.
SetDuration(d) ==
    /\ mounted
    /\ d # duration
    /\ duration' = d
    /\ startResult' = NoStart
    /\ UNCHANGED <<mounted, videoUrl, isRendering, progress, error, sessions,
                   urls, anim, surface>>

\* The callback of window.setInterval, lines 273-280.
ProgressTick(s) ==
    LET elapsed == Elapsed(s)
        pct == Pct(elapsed, sessions[s].targetDuration)
    IN  /\ sessions[s].progressInterval
        /\ ~sessions[s].sampled
        /\ progress' = SetState(progress, pct)
        /\ sessions' = [sessions EXCEPT ![s] = Retired(
                          [sessions[s] EXCEPT
                              !.sampled = TRUE,
                              !.progressInterval =
                                  IF elapsed >= sessions[s].targetDuration
                                  THEN FALSE ELSE @])]
        /\ startResult' = NoStart
        /\ UNCHANGED <<mounted, duration, videoUrl, isRendering, error, urls, anim, surface>>

\* Mutant: the recorder is shared: the deferred stop stops the latest one.
StopTimeoutStopsLatest(s) ==
    LET last == Len(sessions)
        stop == RecorderState(last) # "inactive"
        cleared == [sessions EXCEPT ![s] = [@ EXCEPT !.progressInterval = FALSE,
                                                     !.stopTimeout = FALSE]]
    IN  /\ sessions[s].stopTimeout
        /\ Elapsed(s) >= StopDelay(s)
        /\ sessions' = [cleared EXCEPT
                          ![last] = [@ EXCEPT
                              !.phase = IF stop THEN "stopping" ELSE @,
                              !.stopCalls = IF stop THEN @ + 1 ELSE @]]
        /\ startResult' = NoStart
        /\ UNCHANGED <<mounted, duration, videoUrl, isRendering, progress, error,
                       urls, anim, surface>>

\* Mutant: the deferred stop leaves the sampler scheduled (no line 286).
StopTimeoutKeepsSampler(s) ==
    LET stop == RecorderState(s) # "inactive"
    IN  /\ sessions[s].stopTimeout
        /\ Elapsed(s) >= StopDelay(s)
        /\ sessions' = [sessions EXCEPT ![s] = Retired(
                          [sessions[s] EXCEPT
                              !.phase = IF stop THEN "stopping" ELSE @,
                              !.stopCalls = IF stop THEN @ + 1 ELSE @,
                              !.stopTimeout = FALSE])]
        /\ startResult' = NoStart
        /\ UNCHANGED <<mounted, duration, videoUrl, isRendering, progress, error,
                       urls, anim, surface>>

\* Mutant: the deferred stop does not look at recorder.state.
StopTimeoutAlwaysStops(s) ==
    /\ sessions[s].stopTimeout
    /\ Elapsed(s) >= StopDelay(s)
    /\ sessions' = [sessions EXCEPT ![s] = Retired(
                      [sessions[s] EXCEPT
                          !.phase = IF @ = "recording" THEN "stopping" ELSE @,
                          !.stopCalls = @ + 1,
                          !.progressInterval = FALSE,
                          !.stopTimeout = FALSE])]
    /\ startResult' = NoStart
    /\ UNCHANGED <<mounted, duration, videoUrl, isRendering, progress, error,
                   urls, anim, surface>>

\* The callback of window.setTimeout, lines 282-287.
StopTimeout(s) ==
    LET stop == RecorderState(s) # "inactive"
    IN  /\ sessions[s].stopTimeout
        /\ Elapsed(s) >= StopDelay(s)
        /\ sessions' = [sessions EXCEPT ![s] = Retired(
                          [sessions[s] EXCEPT
                              !.phase = IF stop THEN "stopping" ELSE @,
                              !.stopCalls = IF stop THEN @ + 1 ELSE @,
                              !.progressInterval = FALSE,
                              !.stopTimeout = FALSE])]
        /\ startResult' = NoStart
        /\ UNCHANGED <<mounted, duration, videoUrl, isRendering, progress, error,
                       urls, anim, surface>>

\* Mutant: a segment is put in front of the buffer (unshift for push).
OnDataAvailableUnshift(s, size) ==
    LET data == SegmentData(s, Len(sessions[s].delivered) + 1, size)
    IN  /\ sessions[s].phase \in {"recording", "stopping"}
        /\ Len(sessions[s].delivered) < MaxSegments
        /\ sessions' = [sessions EXCEPT
                          ![s].delivered = Append(@, data),
                          ![s].recordedChunks =
                              IF Len(data) > 0 THEN <<data>> \o @ ELSE @]
        /\ startResult' = NoStart
        /\ UNCHANGED <<mounted, duration, videoUrl, isRendering, progress, error,
                       urls, anim, surface>>

\* recorder.ondataavailable, lines 254-258.  The encoding service delivers
\* segments while the recorder records and, once it is inactive, until the
\* stop completion (recorder.start() is called without a timeslice, so a
\* browser delivers what it gathered after the stop request).
OnDataAvailable(s, size) ==
    LET data == SegmentData(s, Len(sessions[s].delivered) + 1, size)
    IN  /\ sessions[s].phase \in {"recording", "stopping"}
        /\ Len(sessions[s].delivered) < MaxSegments
        /\ sessions' = [sessions EXCEPT
                          ![s].delivered = Append(@, data),
                          ![s].recordedChunks =
                              IF Len(data) > 0 THEN Append(@, data) ELSE @]
        /\ startResult' = NoStart
        /\ UNCHANGED <<mounted, duration, videoUrl, isRendering, progress, error,
                       urls, anim, surface>>

\* The recorder becomes inactive on its own (an encoder fault, the stream
\* ending): the encoding service queues the same stop completion.
EncoderInactive(s) ==
    /\ sessions[s].phase = "recording"
    /\ sessions' = [sessions EXCEPT ![s].phase = "stopping"]
    /\ startResult' = NoStart
    /\ UNCHANGED <<mounted, duration, videoUrl, isRendering, progress, error,
                   urls, anim, surface>>

\* recorder.onstop, lines 260-266.
OnStop(s) ==
    LET blob == NewBlob(sessions[s].recordedChunks, sessions[s].mimeType)
        created == CreateObjectURL(urls, blob, s)
        url == Len(created)
        next == SetState(videoUrl, url)
    IN  /\ sessions[s].phase = "stopping"
        /\ sessions' = [sessions EXCEPT ![s] = Retired(Finalised(@))]
        /\ videoUrl' = next
        /\ urls' = VideoUrlEffect(created, videoUrl, next)
        /\ isRendering' = SetState(isRendering, FALSE)
        /\ progress' = SetState(progress, Whole(FullPercent))
        /\ startResult' = NoStart
        /\ UNCHANGED <<mounted, duration, error, anim, surface>>

\* Time moves on by one step for every session that has a timer pending,
\* once the callbacks due in the current step have run.
Advance ==
    /\ \E s \in Started : TimerPending(s)
    /\ \A s \in Started :
          /\ sessions[s].progressInterval => sessions[s].sampled
          /\ sessions[s].stopTimeout => Elapsed(s) < StopDelay(s)
    /\ sessions' = [s \in Started |->
                      IF TimerPending(s)
                      THEN [sessions[s] EXCEPT !.elapsed = @ + TimeStep,
                                               !.sampled = FALSE]
                      ELSE sessions[s]]
    /\ startResult' = NoStart
    /\ UNCHANGED <<mounted, duration, videoUrl, isRendering, progress, error,
                   urls, anim, surface>>

\* ---------------------------------------------------------- frame renderer
\* drawBackdrop and drawText, lines 40-149, on a model of the 2D context:
\* the drawing state the code touches, the stack of save() / restore(), the
\* current path, and out, the paint calls made so far, each with the part of
\* the drawing state that decides its pixels.  Elapsed time is in whole
\* milliseconds.  A number that depends on Math.sin is kept as the term that
\* computes it.
CANVAS_WIDTH == 960
CANVAS_HEIGHT == 540
LoopSeconds == 6         \* elapsed % 6
DriftSeconds == 4        \* elapsed % 4
GlowSeconds == 3         \* elapsed % 3
WaveStep == 30           \* x += 30

Const(k) == [fn |-> "const", k |-> k]
Add(l, r) == [fn |-> "add", l |-> l, r |-> r]
Sub(l, r) == [fn |-> "sub", l |-> l, r |-> r]
Mul(l, r) == [fn |-> "mul", l |-> l, r |-> r]
Div(l, r) == [fn |-> "div", l |-> l, r |-> r]
Neg(x) == [fn |-> "neg", of |-> x]

\* Math.sin(2 * PI * turns + plus), turns and plus exact rationals.
Sin(turns, plus) == [fn |-> "sin", turns |-> turns, plus |-> plus]

MathMax(a, b) == IF a >= b THEN a ELSE b

\* lerp, lines 32-34.
lerp(a, b, t) == Add(Const(a), Mul(Const(b - a), t))

\* easeInOutCubic, lines 36-38: its argument is a term, so is its value.
easeInOutCubic(t) == [fn |-> "easeInOutCubic", of |-> t]

Color(c) == [kind |-> "color", color |-> c, stops |-> <<>>]

\* Mutant: the index is divided by the number of stops.
GradientOffsetByLength(index, n) == Ratio(index, MathMax(n, 1))

\* index / Math.max(palette.stops.length - 1, 1), line 48.
GradientOffset(index, n) == Ratio(index, MathMax(n - 1, 1))

\* createLinearGradient and the addColorStop calls of lines 46-49.
LinearGradient(stops) ==
    [kind |-> "gradient", color |-> "",
     stops |-> [i \in 1..Len(stops) |->
                   [offset |-> GradientOffset(i - 1, Len(stops)),
                    color |-> stops[i]]]]

\* The drawing state of a new 2D context.
DefaultState ==
    [fillStyle |-> Color("#000000"), globalAlpha |-> Whole(1), transform |-> <<>>,
     textAlign |-> "start", textBaseline |-> "alphabetic",
     font |-> "10px sans-serif",
     shadowColor |-> "rgba(0,0,0,0)", shadowBlur |-> Const(0)]

FreshContext == [state |-> DefaultState, stack |-> <<>>, path |-> <<>>, out |-> <<>>]

Save(c) == [c EXCEPT !.stack = Append(@, c.state)]

Restore(c) ==
    IF c.stack = <<>> THEN c
    ELSE [c EXCEPT !.state = c.stack[Len(c.stack)],
                   !.stack = SubSeq(@, 1, Len(@) - 1)]

SetFillStyle(c, v) == [c EXCEPT !.state.fillStyle = v]
SetGlobalAlpha(c, v) == [c EXCEPT !.state.globalAlpha = v]
SetFont(c, v) == [c EXCEPT !.state.font = v]
SetShadowColor(c, v) == [c EXCEPT !.state.shadowColor = v]
SetShadowBlur(c, v) == [c EXCEPT !.state.shadowBlur = v]
SetTextCentered(c) ==
    [c EXCEPT !.state.textAlign = "center", !.state.textBaseline = "middle"]

Translate(c, x, y) ==
    [c EXCEPT !.state.transform = Append(@, [t |-> "translate", x |-> x, y |-> y])]

Rotate(c, degrees) ==
    [c EXCEPT !.state.transform =
                  Append(@, [t |-> "rotate", x |-> Const(degrees), y |-> Const(0)])]

\* The drawing state a filled shape is painted with, and a text.
ShapeState(st) ==
    [fillStyle |-> st.fillStyle, globalAlpha |-> st.globalAlpha,
     transform |-> st.transform, shadowColor |-> st.shadowColor,
     shadowBlur |-> st.shadowBlur, font |-> "", textAlign |-> "",
     textBaseline |-> ""]

TextState(st) ==
    [fillStyle |-> st.fillStyle, globalAlpha |-> st.globalAlpha,
     transform |-> st.transform, shadowColor |-> st.shadowColor,
     shadowBlur |-> st.shadowBlur, font |-> st.font, textAlign |-> st.textAlign,
     textBaseline |-> st.textBaseline]

FillRect(c, x, y, w, h) ==
    [c EXCEPT !.out = Append(@, [op |-> "fillRect", args |-> <<x, y, w, h>>,
                                  text |-> <<>>, path |-> <<>>,
                                  with |-> ShapeState(c.state)])]

FillText(c, text, x, y) ==
    [c EXCEPT !.out = Append(@, [op |-> "fillText", args |-> <<x, y>>,
                                  text |-> text, path |-> <<>>,
                                  with |-> TextState(c.state)])]

BeginPath(c) == [c EXCEPT !.path = <<>>]

PathTo(c, seg, x, y, r) ==
    [c EXCEPT !.path = Append(@, [seg |-> seg, x |-> x, y |-> y, r |-> r])]

Fill(c) ==
    [c EXCEPT !.out = Append(@, [op |-> "fill", args |-> <<>>, text |-> <<>>,
                                  path |-> c.path, with |-> ShapeState(c.state)])]

\* The lineTo calls of the loop of lines 72-78, from x on.
RECURSIVE WaveLine(_, _, _, _)
WaveLine(c, x, amplitude, loop) ==
    IF x > CANVAS_WIDTH THEN c
    ELSE LET y == Sub(Sub(Const(CANVAS_HEIGHT), amplitude),
                      Mul(Sin(Ratio(x, CANVAS_WIDTH), loop), amplitude))
         IN  WaveLine(PathTo(c, "lineTo", Const(x), y, Const(0)),
                      x + WaveStep, amplitude, loop)

\* The phase of line 57, elapsed % 6, in seconds.
LoopPhase(elapsed) == Ratio(elapsed % (LoopSeconds * MsPerSecond), MsPerSecond)

\* The switch of lines 60-95.
DrawShape(c, shape, loop, smooth) ==
    CASE shape = "circle" ->
            Fill(PathTo(BeginPath(c), "arc", Const(CANVAS_WIDTH \div 2),
                        Const(CANVAS_HEIGHT \div 2), lerp(260, 320, smooth)))
      [] shape = "wave" ->
            LET amplitude == lerp(40, 80, smooth)
                c1 == PathTo(BeginPath(c), "moveTo", Const(0), Const(CANVAS_HEIGHT),
                             Const(0))
                c2 == WaveLine(c1, 0, amplitude, loop)
                c3 == PathTo(c2, "lineTo", Const(CANVAS_WIDTH), Const(CANVAS_HEIGHT),
                             Const(0))
            IN  Fill(PathTo(c3, "closePath", Const(0), Const(0), Const(0)))
      [] shape = "diagonal" ->
            LET offset == lerp(-120, 120, smooth)
                c1 == Rotate(Translate(c, offset, Neg(offset)), -12)
                c2 == FillRect(c1, Const(-CANVAS_WIDTH), Const(0),
                               Const(CANVAS_WIDTH * 3), Const(180))
                c3 == SetGlobalAlpha(c2, Ratio(12, 100))
            IN  FillRect(c3, Const(-CANVAS_WIDTH), Const(240),
                         Const(CANVAS_WIDTH * 3), Const(180))
      [] OTHER -> c

\* Mutant: the save() of line 53 and the restore() of line 97 are missing.
drawBackdropNoSave(c, stops, elapsed, shape) ==
    LET c1 == SetFillStyle(c, LinearGradient(stops))
        c2 == FillRect(c1, Const(0), Const(0), Const(CANVAS_WIDTH), Const(CANVAS_HEIGHT))
        c3 == SetFillStyle(SetGlobalAlpha(c2, Ratio(18, 100)), Color("#fff"))
        loop == LoopPhase(elapsed)
        smooth == easeInOutCubic(Div(Add(Sin(Whole(0), loop), Const(1)),
                                     Const(2)))
    IN  DrawShape(c3, shape, loop, smooth)

\* Mutant: the wave's phase is the elapsed time, not the loop phase.
drawBackdropUnwrapped(c, stops, elapsed, shape) ==
    LET c1 == SetFillStyle(c, LinearGradient(stops))
        c2 == FillRect(c1, Const(0), Const(0), Const(CANVAS_WIDTH), Const(CANVAS_HEIGHT))
        c3 == SetFillStyle(SetGlobalAlpha(Save(c2), Ratio(18, 100)), Color("#fff"))
        loop == Ratio(elapsed, MsPerSecond)
        smooth == easeInOutCubic(Div(Add(Sin(Whole(0), loop), Const(1)),
                                     Const(2)))
    IN  Restore(DrawShape(c3, shape, loop, smooth))

\* drawBackdrop, lines 40-98.  stops: palette.stops.
drawBackdrop(c, stops, elapsed, shape) ==
    LET c1 == SetFillStyle(c, LinearGradient(stops))
        c2 == FillRect(c1, Const(0), Const(0), Const(CANVAS_WIDTH), Const(CANVAS_HEIGHT))
        c3 == SetFillStyle(SetGlobalAlpha(Save(c2), Ratio(18, 100)), Color("#fff"))
        loop == LoopPhase(elapsed)
        smooth == easeInOutCubic(Div(Add(Sin(Whole(0), loop), Const(1)),
                                     Const(2)))
    IN  Restore(DrawShape(c3, shape, loop, smooth))

Lowercase == <<"a", "b", "c", "d", "e", "f", "g", "h", "i", "j", "k", "l", "m",
               "n", "o", "p", "q", "r", "s", "t", "u", "v", "w", "x", "y", "z">>
Uppercase == <<"A", "B", "C", "D", "E", "F", "G", "H", "I", "J", "K", "L", "M",
               "N", "O", "P", "Q", "R", "S", "T", "U", "V", "W", "X", "Y", "Z">>

\* title.toUpperCase(): a string is the sequence of its characters.
ToUpperCase(str) ==
    [i \in 1..Len(str) |->
        IF \E k \in DOMAIN Lowercase : Lowercase[k] = str[i]
        THEN Uppercase[CHOOSE k \in DOMAIN Lowercase : Lowercase[k] = str[i]]
        ELSE str[i]]

\* drawText, lines 100-149.
drawText(c, title, subtitle, callout, accent, elapsed) ==
    LET midX == Const(CANVAS_WIDTH \div 2)
        midY == CANVAS_HEIGHT \div 2
        wave == Sin(Ratio(elapsed % (DriftSeconds * MsPerSecond),
                          DriftSeconds * MsPerSecond), Whole(0))
        shiftX == Mul(wave, Const(8))
        s1 == SetFillStyle(Save(c), Color("rgba(0,0,0,0.22)"))
        s2 == SetTextCentered(Translate(s1, shiftX, Const(0)))
        s3 == FillText(SetFont(s2, "60px \"Urbanist\", sans-serif"),
                       ToUpperCase(title), midX, Const(midY - 40))
        s4 == FillText(SetFont(s3, "28px \"Urbanist\", sans-serif"),
                       subtitle, midX, Const(midY + 18))
        g1 == SetTextCentered(Save(Restore(s4)))
        glow == Add(Const(10),
                    Mul(Sin(Ratio(elapsed % (GlowSeconds * MsPerSecond), MsPerSecond),
                            Whole(0)),
                        Const(6)))
        g2 == SetShadowBlur(SetShadowColor(g1, accent), glow)
        g3 == FillText(SetFont(SetFillStyle(g2, Color("#fff")),
                               "60px \"Urbanist\", sans-serif"),
                       ToUpperCase(title), midX, Const(midY - 44))
        g4 == FillText(SetFont(g3, "28px \"Urbanist\", sans-serif"),
                       subtitle, midX, Const(midY + 14))
        g5 == SetShadowBlur(SetFillStyle(g4, Color(accent)), Const(0))
        g6 == FillRect(g5, Const(CANVAS_WIDTH \div 2 - 120), Const(midY + 76),
                       Const(240), Const(54))
        g7 == SetFont(SetFillStyle(g6, Color("#060606")),
                      "22px \"Urbanist\", sans-serif")
    IN  Restore(FillText(g7, callout, midX, Const(midY + 103)))

\* The palette registry, lines 15-21: the stops of each palette.
gradients ==
    [sunset |-> <<"#ff6b6b", "#feca57", "#ff9ff3">>,
     violet |-> <<"#9795f0", "#fbc8d4">>,
     lagoon |-> <<"#43c6ac", "#191654">>,
     midnight |-> <<"#0f2027", "#203a43", "#2c5364">>,
     ember |-> <<"#ff512f", "#dd2476">>]

\* The parameters of useState, lines 153-160.
DefaultParams ==
    [stops |-> gradients.sunset, shape |-> "circle",
     title |-> <<"L", "a", "u", "n", "c", "h", " ", "D", "a", "y">>,
     subtitle |-> <<"4", "K">>,
     callout |-> <<"W", "a", "t", "c", "h">>,
     accent |-> "#ffffff"]

\* The body of loop, lines 185-187, at elapsed milliseconds: the frame starts
\* on the context the earlier frames left; out holds this frame's paint
\* calls, the first backdrop of them made by drawBackdrop.
PaintFrame(sf, elapsed, params) ==
    LET c0 == [sf.ctx EXCEPT !.out = <<>>]
        c1 == drawBackdrop(c0, params.stops, elapsed, params.shape)
        c2 == drawText(c1, params.title, params.subtitle, params.callout,
                       params.accent, elapsed)
    IN  [ctx |-> c2, backdrop |-> Len(c1.out), elapsed |-> elapsed,
         params |-> params, painted |-> TRUE]

\* The canvas before the first frame.
FreshSurface ==
    [ctx |-> FreshContext, backdrop |-> 0, elapsed |-> 0,
     params |-> DefaultParams, painted |-> FALSE]

SurfaceInit == surface = FreshSurface

\* ------------------------------------------------------------ preview loop
\* The effect of lines 171-193.  Each run of the effect is an instance of
\* the loop with its own closure: the parameters it paints with and its
\* variable animationFrame.  pending holds the frame callbacks registered
\* with requestAnimationFrame and neither run nor cancelled.
Shapes == {"circle", "wave", "diagonal"}

NoPaint == [inst |-> 0, shape |-> "none", live |-> TRUE]

\* Mutant: only the id of the instance's first request is kept.
RequestFrameKeepsFirstId(a, inst, shape) ==
    [a EXCEPT !.pending = @ \cup {[id |-> a.nextId, inst |-> inst, shape |-> shape]},
              !.animationFrame = [i \in 1..a.instance |->
                                     IF i = inst /\ @[i] = 0 THEN a.nextId ELSE @[i]],
              !.nextId = @ + 1]

\* requestAnimationFrame(loop) by instance inst: the new id is stored in the
\* instance's animationFrame (lines 188 and 191).
RequestFrame(a, inst, shape) ==
    [a EXCEPT !.pending = @ \cup {[id |-> a.nextId, inst |-> inst, shape |-> shape]},
              !.animationFrame = [i \in 1..a.instance |->
                                     IF i = inst THEN a.nextId ELSE @[i]],
              !.nextId = @ + 1]

\* The effect body, lines 172-191: a new instance; without a canvas or a 2D
\* context it returns before it starts a loop (and registers no cleanup).
RunEffect(a, shape, ctx) ==
    LET b == [a EXCEPT !.instance = @ + 1,
                       !.shape = shape,
                       !.running = ctx,
                       !.animationFrame = Append(@, 0)]
    IN  IF ctx THEN RequestFrame(b, b.instance, shape) ELSE b

\* The cleanup, line 192: cancelAnimationFrame(animationFrame).
AnimCleanup(a) ==
    IF a.running
    THEN [a EXCEPT !.pending = {f \in @ : f.id # a.animationFrame[a.instance]},
                   !.running = FALSE]
    ELSE a

AnimInit ==
    anim = RunEffect([instance |-> 0, shape |-> "circle", running |-> FALSE,
                      animationFrame |-> <<>>, pending |-> {}, nextId |-> 1,
                      edits |-> 0, lastPaint |-> NoPaint],
                     "circle", TRUE)

\* The elapsed times of the frames explored, in milliseconds.
FrameTimes == {k * FrameStepMs : k \in 0..MaxTicks}

\* loop(timestamp), lines 184-189: one frame callback runs, paints with the
\* parameters of its closure, and requests the next frame.
Frame(f) ==
    /\ f \in anim.pending
    /\ anim.nextId <= MaxFrames
    /\ anim' = RequestFrame(
                  [anim EXCEPT !.pending = @ \ {f},
                               !.lastPaint = [inst |-> f.inst, shape |-> f.shape,
                                              live |-> mounted /\ anim.running
                                                       /\ f.inst = anim.instance]],
                  f.inst, f.shape)
    /\ \E elapsed \in FrameTimes :
          surface' = PaintFrame(surface, elapsed, [DefaultParams EXCEPT !.shape = f.shape])
    /\ UNCHANGED capVars

\* A parameter of the dependency list changes (here the shape): the cleanup
\* of the running instance, then the effect again.
EditParams(shape, ctx) ==
    /\ mounted
    /\ shape # anim.shape
    /\ anim.edits < MaxEdits
    /\ anim.nextId <= MaxFrames
    /\ anim' = RunEffect([AnimCleanup(anim) EXCEPT !.edits = @ + 1], shape, ctx)
    /\ UNCHANGED <<capVars, surface>>

\* Unmount: the cleanups of both effects run, and React discards the
\* component's state (the variables go back to their initial values and no
\* setter changes them again).
Unmount ==
    /\ mounted
    /\ mounted' = FALSE
    /\ urls' = VideoUrlCleanup(urls, videoUrl)
    /\ anim' = AnimCleanup(anim)
    /\ duration' = DefaultDuration
    /\ videoUrl' = NULL
    /\ isRendering' = FALSE
    /\ progress' = Whole(0)
    /\ error' = NoError
    /\ startResult' = NoStart
    /\ UNCHANGED <<sessions, surface>>

\* The inputs of a start request: the surface, the stream and the encoding
\* service.  An input handleRender does not get to read is left at a default.
StartInputs ==
    {<<FALSE, TRUE, TRUE, {}>>, <<TRUE, FALSE, TRUE, {}>>, <<TRUE, TRUE, FALSE, {}>>}
    \cup {<<TRUE, TRUE, TRUE, supported>> : supported \in SUBSET MimeTypes}

Init == CaptureInit /\ AnimInit /\ SurfaceInit

Next ==
    \/ \E in \in StartInputs : HandleRender(in[1], in[2], in[3], in[4])
    \/ \E d \in Durations : SetDuration(d)
    \/ \E s \in Started : ProgressTick(s)
    \/ \E s \in Started : StopTimeout(s)
    \/ \E s \in Started : \E size \in Sizes : OnDataAvailable(s, size)
    \/ \E s \in Started : EncoderInactive(s)
    \/ \E s \in Started : OnStop(s)
    \/ Advance
    \/ Unmount

Spec == Init /\ [][Next]_vars

\* The preview loop on its own: it reads and writes nothing of the capture
\* controller, and the controller nothing of it.
NextAnim ==
    \/ \E f \in anim.pending : Frame(f)
    \/ \E shape \in Shapes : \E ctx \in BOOLEAN : EditParams(shape, ctx)
    \/ Unmount

SpecAnim == Init /\ [][NextAnim]_vars

\* The renderer on its own: frames painted one after the other on the same
\* context, for any elapsed time and any parameters.
StopColors == <<"#ff6b6b", "#feca57", "#ff9ff3", "#9795f0", "#fbc8d4">>

Palettes ==
    {gradients[id] : id \in DOMAIN gradients}
        \cup {SubSeq(StopColors, 1, n) : n \in 1..MaxStops}

\* Two settings of the text fields and the accent colour.
Texts ==
    {[title |-> DefaultParams.title, subtitle |-> DefaultParams.subtitle,
      callout |-> DefaultParams.callout, accent |-> DefaultParams.accent],
     [title |-> <<"g", "o", "!">>, subtitle |-> <<>>,
      callout |-> <<"G", "o">>, accent |-> "#ff0000"]}

ParamSets ==
    {[stops |-> stops, shape |-> shape, title |-> text.title,
      subtitle |-> text.subtitle, callout |-> text.callout, accent |-> text.accent] :
        stops \in Palettes, shape \in Shapes, text \in Texts}

Paint(elapsed, params) ==
    /\ surface' = PaintFrame(surface, elapsed, params)
    /\ UNCHANGED <<capVars, anim>>

NextRender == \E elapsed \in FrameTimes : \E params \in ParamSets : Paint(elapsed, params)

SpecRender == Init /\ [][NextRender]_vars

\* Timers that are due fire, the encoding service delivers the stop
\* completion it has queued, and time goes on.
Fairness ==
    /\ WF_vars(Advance)
    /\ \A s \in 1..MaxSessions :
          /\ WF_vars(s \in Started /\ ProgressTick(s))
          /\ WF_vars(s \in Started /\ StopTimeout(s))
          /\ WF_vars(s \in Started /\ OnStop(s))

LiveSpec == Init /\ [][Next]_vars /\ Fairness

\* ------------------------------------------------------------------ claims
\* A step that is a start request: every other step resets startResult.
StartRequest == startResult'.outcome # "none"

Last == Len(sessions)

UrlsOf(s) == {u \in DOMAIN urls : urls[u].session = s}

\* The object URL u was the result when a later start request began a session.
Superseded(u) == urls[u].session < Last

\* C1: every artifact handle a later start superseded has been revoked
\* exactly once, counting the updater of the start action and the cleanup of
\* the videoUrl effect, and the handle that is the current result has not
\* been revoked.
C1_RevokedExactlyOnce ==
    \A u \in DOMAIN urls :
        /\ Superseded(u) => urls[u].revoked = 1
        /\ (mounted /\ u = videoUrl) => urls[u].revoked = 0

\* C2: once the component is unmounted no timer of a capture session is
\* pending: neither a progress sampler nor a deferred stop timer is left to
\* fire.
C2_NoTimerAfterUnmount ==
    ~mounted => \A s \in Started : ~TimerPending(s)

\* C3: a start request issued while isRendering is true is ignored: it
\* creates no session (no recorder, stream, timer or chunk buffer) and leaves
\* progress, the error message, the result handle, the object URLs and the
\* running session unchanged.
C3_StartWhileRecordingIsNoOp ==
    [][(isRendering /\ StartRequest) =>
          /\ startResult'.outcome = "ignored"
          /\ UNCHANGED <<mounted, duration, videoUrl, isRendering, progress, error,
                         sessions, urls>>]_vars

C3_Witness ==
    /\ startResult.outcome = "ignored"
    /\ isRendering
    /\ Last >= 1
    /\ sessions[Last].phase = "recording"
    /\ progress.n > 0

\* C4: every successful start sets progress to 0 and clears the result
\* handle, releasing the previous one, in the step that starts the session
\* and so before that session's handle is created; and from the start to the
\* session's stop completion no result handle is present.
C4_StartResets ==
    /\ [][startResult'.outcome = "started" =>
             /\ progress' = Whole(0)
             /\ videoUrl' = NULL
             /\ videoUrl # NULL => urls'[videoUrl].revoked >= 1
             /\ Len(urls') = Len(urls)]_vars
    /\ [](\A s \in Started :
             (mounted /\ s = Last /\ sessions[s].phase # "stopped") =>
                 /\ videoUrl = NULL
                 /\ UrlsOf(s) = {})

C4_Witness ==
    /\ startResult.outcome = "started"
    /\ Last = 2
    /\ urls # <<>>
    /\ urls[1].revoked >= 1
    /\ videoUrl = NULL
    /\ progress = Whole(0)

\* Session s is the latest one and its stop completion has not run.
Unfinished(s) == mounted /\ Last = s /\ sessions[s].phase # "stopped"

\* The controller is Ready with the one artifact of session s, progress 100.
ReadyWith(s) ==
    /\ mounted
    /\ ~isRendering
    /\ videoUrl # NULL
    /\ urls[videoUrl].session = s
    /\ Cardinality(UrlsOf(s)) = 1
    /\ progress = Whole(FullPercent)

EventuallyReady ==
    /\ \A s \in 1..MaxSessions : Unfinished(s) ~> (~mounted \/ ReadyWith(s))
    /\ [](\A s \in Started :
             /\ sessions[s].phase = "recording" => sessions[s].stopTimeout
             /\ Cardinality(UrlsOf(s)) <= 1)

\* Ready with an artifact that holds no data.
ReadyWithEmptyArtifact ==
    /\ Last = 1
    /\ ReadyWith(1)
    /\ sessions[1].stopCalls = 1
    /\ urls[videoUrl].blob.data = <<>>

\* The step is the stop completion of session s.
StopCompletes(s) ==
    sessions[s].phase = "stopping" /\ sessions'[s].phase = "stopped"

\* C6: the artifact a stop completion creates is the concatenation, in
\* arrival order, of every segment the recorder delivered up to that stop
\* completion, those delivered after the stop request included, none dropped
\* or reordered, tagged with the type negotiated at the start.
C6_ArtifactIsConcatenation ==
    [][\A s \in Started :
          StopCompletes(s) =>
              /\ Len(urls') = Len(urls) + 1
              /\ urls'[Len(urls')].session = s
              /\ urls'[Len(urls')].blob =
                     [data |-> Flatten(sessions[s].delivered),
                      type |-> sessions[s].mimeType]]_vars

C6_Witness ==
    \E u \in DOMAIN urls :
        /\ urls[u].blob.data = <<11, 12>>
        /\ urls[u].blob.type = VP8
        /\ sessions[urls[u].session].stopCalls = 1

\* The encoding service supports no type at all.
NothingSupported(r) == ~r.present \/ r.supported = {}

\* C7: a start request that gets as far as the encoding service, when the
\* service supports no codec variant, fails: isRendering stays false, the
\* error message is set, no session (recorder) is started and no object URL
\* is created.
C7_NoCodecFailsStart ==
    [][(startResult'.outcome \in {"noRecorder", "started"}
          /\ NothingSupported(startResult')) =>
              /\ startResult'.outcome = "noRecorder"
              /\ isRendering' = FALSE
              /\ error' = ErrRecorder
              /\ sessions' = sessions
              /\ urls' = urls]_vars

C7_Witness ==
    /\ startResult.outcome = "noRecorder"
    /\ startResult.present
    /\ startResult.supported = {}
    /\ error = ErrRecorder
    /\ ~isRendering
    /\ sessions = <<>>

\* C8: a start request that finds no surface, gets no stream, or whose
\* recorder construction throws sets an error message and nothing else:
\* isRendering stays false, no session with its recorder, sampler and stop
\* timer appears, no object URL is created, progress and the previous result
\* are unchanged; and a session only ever appears in a start request's step.
C8_FailedStartLeavesNoSession ==
    /\ [][(~isRendering /\ StartRequest
             /\ (~startResult'.canvas \/ ~startResult'.stream
                   \/ ConstructorThrows(startResult'.present, startResult'.supported,
                          NegotiateMimeType(startResult'.present,
                                            startResult'.supported)))) =>
                /\ startResult'.outcome \in {"noCanvas", "noStream", "noRecorder"}
                /\ error' \in {ErrCanvas, ErrStream, ErrRecorder}
                /\ isRendering' = FALSE
                /\ UNCHANGED <<progress, videoUrl, sessions, urls>>]_vars
    /\ [][Len(sessions') > Len(sessions) => startResult'.outcome = "started"]_vars

C8_Witness ==
    /\ startResult.outcome = "noStream"
    /\ error = ErrStream
    /\ ~isRendering
    /\ videoUrl # NULL
    /\ urls[videoUrl].revoked = 0
    /\ progress = Whole(FullPercent)
    /\ \A s \in Started : sessions[s].phase = "stopped"

\* min(100, elapsed / targetDuration * 100), case by case.
ExpectedPct(elapsed, targetDuration) ==
    IF elapsed >= targetDuration THEN Whole(FullPercent)
    ELSE Ratio(elapsed * FullPercent, targetDuration)

InRange(p) == p.d > 0 /\ RLeq(Whole(0), p) /\ RLeq(p, Whole(FullPercent))

\* Every sample the sampler can take for a duration of the slider: every
\* period from the start until a step past the deferred stop.
PctTable ==
    \A d \in MinDuration..MaxSliderDuration :
        \A k \in 0..((d * MsPerSecond + StopGrace) \div SamplePeriod + StepPeriods) :
            LET p == Pct(k * SamplePeriod, d * MsPerSecond)
            IN  InRange(p) /\ p = ExpectedPct(k * SamplePeriod, d * MsPerSecond)

\* The step is a run of the sampler of session s.
SampleStep(s) ==
    /\ sessions[s].progressInterval
    /\ ~sessions[s].sampled
    /\ sessions'[s].sampled
    /\ sessions'[s].stopTimeout

\* C9: progress is within [0, 100] in every reachable state; every sample
\* the sampler sets equals min(100, elapsed / targetDuration * 100), also
\* past the target duration and before the deferred stop; and the same
\* holds of the sample formula for every slider duration 3..12 and every
\* sample time.
C9_ProgressWithinBounds ==
    /\ [](InRange(progress))
    /\ [](sessions = <<>> => PctTable)
    /\ [][\A s \in Started :
             (mounted /\ SampleStep(s)) =>
                 progress' = ExpectedPct(Elapsed(s), sessions[s].targetDuration)]_vars

C9_Witness ==
    \E s \in Started :
        /\ mounted
        /\ isRendering
        /\ sessions[s].phase = "recording"
        /\ sessions[s].stopTimeout
        /\ ~sessions[s].progressInterval
        /\ Elapsed(s) > sessions[s].targetDuration
        /\ progress = Whole(FullPercent)

\* C10: every pending frame callback belongs to the loop instance that is
\* running now and is the one its cleanup will cancel; at most one is
\* pending; after a parameter change or unmount none of the torn-down
\* instance is left, and no paint call was ever made by an instance that was
\* not the running one.
C10_NoPaintAfterTeardown ==
    /\ anim.lastPaint.live
    /\ Cardinality(anim.pending) <= 1
    /\ \A f \in anim.pending :
          /\ mounted
          /\ anim.running
          /\ f.inst = anim.instance
          /\ f.id = anim.animationFrame[anim.instance]
          /\ f.shape = anim.shape

C10_Witness ==
    /\ anim.instance = 2
    /\ anim.animationFrame[1] > 1
    /\ anim.lastPaint.inst = 2
    /\ ~mounted
    /\ anim.pending = {}

\* The ordered preference list of the codec variants that are queried.
Preference == <<VP9, VP8>>

\* The first entry of the preference list the service supports, the generic
\* container type when there is none or the service is absent.
FirstSupported(present, supported) ==
    LET ok == {i \in DOMAIN Preference : Preference[i] \in supported}
    IN  IF present /\ ok # {}
        THEN Preference[CHOOSE i \in ok : \A j \in ok : i <= j]
        ELSE WEBM

\* C11: codec negotiation returns the first supported entry of the
\* preference list (vp9, then vp8), the generic container type when neither
\* is supported or the service is absent: for every combination of support
\* answers, for the type every start request negotiates, and for the type of
\* the session it starts.
C11_NegotiationOrder ==
    /\ [](\A present \in BOOLEAN : \A supported \in SUBSET MimeTypes :
             NegotiateMimeType(present, supported)
                 = FirstSupported(present, supported))
    /\ [][startResult'.outcome \in {"noRecorder", "started"} =>
             /\ startResult'.mimeType
                    = FirstSupported(startResult'.present, startResult'.supported)
             /\ startResult'.outcome = "started" =>
                    sessions'[Len(sessions')].mimeType = startResult'.mimeType]_vars

C11_Witness ==
    /\ startResult.outcome = "started"
    /\ startResult.supported = {VP8, WEBM}
    /\ sessions[Last].mimeType = VP8
    /\ sessions[Last].phase = "recording"

\* The paint calls of a frame, and those of them drawBackdrop made.
FrameOf(sf) == sf.ctx.out

BackdropOf(sf) == SubSeq(sf.ctx.out, 1, sf.backdrop)

\* The gradient the last frame filled the surface with.
PaintedGradient == surface.ctx.out[1].with.fillStyle

\* The rational a is i / (n - 1), or i / 1 for a single stop.
IsStopOffset(a, i, n) ==
    /\ a.d > 0
    /\ a.n * (IF n = 1 THEN 1 ELSE n - 1) = i * a.d

\* C12: the gradient of a painted frame has one stop for each of the n >= 1
\* stops of the palette, stop number i (from 0) at offset i / max(n - 1, 1):
\* every offset lies in [0, 1], consecutive offsets are 1 / (n - 1) apart,
\* the first is 0, the last is 1 for n >= 2, and a single-stop palette gives
\* the one offset 0 with no division by zero.
C12_GradientStops ==
    surface.painted =>
        LET g == PaintedGradient
            n == Len(surface.params.stops)
        IN  /\ surface.ctx.out[1].op = "fillRect"
            /\ g.kind = "gradient"
            /\ Len(g.stops) = n
            /\ \A i \in 1..n :
                  /\ g.stops[i].color = surface.params.stops[i]
                  /\ IsStopOffset(g.stops[i].offset, i - 1, n)
                  /\ RLeq(Whole(0), g.stops[i].offset)
                  /\ RLeq(g.stops[i].offset, Whole(1))
            /\ \A i \in 1..(n - 1) :
                  LET a == g.stops[i].offset
                      b == g.stops[i + 1].offset
                  IN  (b.n * a.d - a.n * b.d) * (n - 1) = a.d * b.d
            /\ g.stops[1].offset = Whole(0)
            /\ n >= 2 => g.stops[n].offset = Whole(1)
            /\ n = 1 => g.stops = <<[offset |-> Whole(0),
                                     color |-> surface.params.stops[1]]>>

C12_Witness ==
    /\ surface.painted
    /\ Len(surface.params.stops) = 1
    /\ PaintedGradient.stops = <<[offset |-> Whole(0), color |-> StopColors[1]]>>

\* C13: the paint calls of a frame, each with the drawing state it is painted
\* with, are those of the same frame painted on a new context, whatever
\* frames were painted before on the same context; and a frame leaves the
\* stack of saved states empty and alpha, transform and shadow as they were
\* on the new context.
C13_FrameIsPure ==
    surface.painted =>
        /\ FrameOf(surface)
               = FrameOf(PaintFrame(FreshSurface, surface.elapsed, surface.params))
        /\ surface.ctx.stack = <<>>
        /\ surface.ctx.state.globalAlpha = DefaultState.globalAlpha
        /\ surface.ctx.state.transform = DefaultState.transform
        /\ surface.ctx.state.shadowColor = DefaultState.shadowColor
        /\ surface.ctx.state.shadowBlur = DefaultState.shadowBlur

\* A diagonal frame painted while the path of an earlier circle or wave
\* frame is still the current path.
C13_Witness ==
    /\ surface.painted
    /\ surface.params.shape = "diagonal"
    /\ surface.ctx.path # <<>>
    /\ surface.ctx.state.fillStyle.kind = "gradient"
    /\ Len(FrameOf(surface)) = 9

LoopMs == LoopSeconds * MsPerSecond

\* C14: for the circle and the wave, the paint calls of drawBackdrop at
\* elapsed time t + 6 s are those at t: for a frame painted right after the
\* frame at t on the same context, and for the frame at t on a new context.
C14_BackdropPeriodic ==
    /\ [][(/\ surface.painted
           /\ surface'.elapsed = surface.elapsed + LoopMs
           /\ surface'.params.shape \in {"circle", "wave"}
           /\ surface'.params.shape = surface.params.shape
           /\ surface'.params.stops = surface.params.stops) =>
              BackdropOf(surface') = BackdropOf(surface)]_vars
    /\ []((/\ surface.painted
           /\ surface.elapsed >= LoopMs
           /\ surface.params.shape \in {"circle", "wave"}) =>
              BackdropOf(surface)
                  = BackdropOf(PaintFrame(FreshSurface, surface.elapsed - LoopMs,
                                          surface.params)))

C14_Witness ==
    /\ surface.painted
    /\ surface.elapsed = LoopMs + FrameStepMs
    /\ surface.params.shape = "wave"
    /\ Len(BackdropOf(surface)) = 2
    /\ BackdropOf(surface)
           = BackdropOf(PaintFrame(FreshSurface, FrameStepMs, surface.params))

\* The controller is Ready: not recording, a result handle present.
Ready == mounted /\ ~isRendering /\ videoUrl # NULL

\* C15: whenever the controller is Ready, progress is 100, and it stays 100
\* until the next start, also after the recorder became inactive on its own
\* while the session's progress sampler was still scheduled.
C15_ReadyProgressIs100 ==
    Ready => progress = Whole(FullPercent)

\* The step is the run of the deferred stop timer of session s.
StopTimerFires(s) == sessions[s].stopTimeout /\ ~sessions'[s].stopTimeout

\* C16: a session gets its one deferred stop timer when it starts, set from
\* the duration of that moment (targetDuration + 200 ms, 3200 ms for 3 s),
\* and later edits of the duration do not move it; the timer runs once, not
\* before targetDuration + 200 ms have elapsed, and is never set again; it
\* requests the stop exactly when the recorder is not inactive, so a stop is
\* requested at most once per session, only by this timer and never of an
\* inactive recorder.
C16_SingleDeferredStop ==
    /\ [][Len(sessions') > Len(sessions) =>
             /\ Len(sessions') = Len(sessions) + 1
             /\ sessions'[Len(sessions')].stopTimeout
             /\ sessions'[Len(sessions')].elapsed = 0
             /\ sessions'[Len(sessions')].stopCalls = 0
             /\ sessions'[Len(sessions')].targetDuration = duration * MsPerSecond]_vars
    /\ [][\A s \in Started :
             /\ ~sessions[s].stopTimeout => ~sessions'[s].stopTimeout
             /\ sessions'[s].stopTimeout =>
                    sessions'[s].targetDuration = sessions[s].targetDuration
             /\ StopTimerFires(s) =>
                    /\ Elapsed(s) >= sessions[s].targetDuration + StopGrace
                    /\ sessions[s].targetDuration = MinDuration * MsPerSecond =>
                           Elapsed(s) >= 3200
                    /\ sessions'[s].stopCalls =
                           IF sessions[s].phase = "recording" THEN 1 ELSE 0
                    /\ sessions[s].phase = "recording" =>
                           sessions'[s].phase = "stopping"
                    /\ sessions[s].phase # "recording" =>
                           sessions'[s].phase = sessions[s].phase
             /\ sessions'[s].stopCalls # sessions[s].stopCalls =>
                    /\ StopTimerFires(s)
                    /\ sessions[s].phase = "recording"]_vars
    /\ [](\A s \in Started : sessions[s].stopCalls <= 1)

C16_Witness ==
    \E s \in Started :
        /\ sessions[s].targetDuration = MinDuration * MsPerSecond
        /\ duration = DefaultDuration
        /\ Elapsed(s) = 3200
        /\ sessions[s].stopCalls = 1
        /\ sessions[s].phase = "stopping"
        /\ ~sessions[s].stopTimeout

\* The stop of session s was requested by its deferred stop timer.
StoppedByTimer(s) == sessions[s].stopCalls = 1

\* Every recorder that is no longer recording was stopped by its timer.
AllStoppedByTimer ==
    \A s \in Started : sessions[s].phase # "recording" => StoppedByTimer(s)

\* C17: whatever the order of a session's sampler runs, its deferred stop
\* timer, its segment deliveries and the stop completion that follows the
\* timer's stop request, the outcome is the same: at the stop completion the
\* sampler is already cleared and stays so, so no sample of the session is
\* applied afterwards, and (while the component is mounted) the completion
\* leaves the controller Ready with the session's artifact and progress 100,
\* which then stays until the next start.
C17_SameOutcomeForEveryOrder ==
    /\ [][\A s \in Started :
             (StopCompletes(s) /\ StoppedByTimer(s)) =>
                 /\ ~sessions[s].progressInterval
                 /\ ~sessions[s].stopTimeout
                 /\ mounted =>
                        /\ ~isRendering'
                        /\ videoUrl' # NULL
                        /\ urls'[videoUrl'].session = s
                        /\ progress' = Whole(FullPercent)]_vars
    /\ [](\A s \in Started :
             (sessions[s].phase = "stopped" /\ StoppedByTimer(s)) =>
                 ~TimerPending(s))
    /\ [][\A s \in Started :
             ~sessions[s].progressInterval => ~sessions'[s].progressInterval]_vars
    /\ []((mounted /\ AllStoppedByTimer /\ Last >= 1
             /\ sessions[Last].phase = "stopped") =>
                /\ Ready
                /\ urls[videoUrl].session = Last
                /\ progress = Whole(FullPercent))

\* The deferred stop timer of a session has run before the sampler's last
\* run, after a segment was delivered: the sampler is cleared with its
\* sample of this step not taken, and the stop completion is still to come.
C17_Witness ==
    \E s \in Started :
        /\ mounted
        /\ sessions[s].phase = "stopping"
        /\ StoppedByTimer(s)
        /\ ~sessions[s].progressInterval
        /\ ~sessions[s].sampled
        /\ sessions[s].delivered # <<>>
        /\ progress # Whole(FullPercent)

\* Every callback of every session has run: no timer is pending and every
\* recorder has delivered its stop completion.
Quiescent ==
    \A s \in Started : sessions[s].phase = "stopped" /\ ~TimerPending(s)

\* C18: once the component is unmounted and every pending callback has run,
\* every object URL that was ever created has been revoked, the one created
\* by a stop completion that arrives after the unmount included.
C18_NoHandleLeftAfterUnmount ==
    (~mounted /\ Quiescent) => \A u \in DOMAIN urls : urls[u].revoked >= 1

\* The sessions whose recorder is recording.
Recording == {s \in Started : RecorderState(s) = "recording"}

\* C19: at most one session has a recording recorder at any time; while the
\* component is mounted it is the latest session and isRendering is true;
\* and isRendering and a result handle never hold together.
C19_OneActiveRecorder ==
    /\ Cardinality(Recording) <= 1
    /\ \A s \in Recording : s = Last /\ (mounted => isRendering)
    /\ ~(isRendering /\ videoUrl # NULL)

\* A second session records while the first, whose recorder went inactive
\* on its own, still has timers pending.
C19_Witness ==
    /\ Last = 2
    /\ Recording = {2}
    /\ sessions[1].phase = "stopped"
    /\ TimerPending(1)
    /\ isRendering
    /\ videoUrl = NULL
    /\ urls # <<>>

\* The bytes the recorder of session s can deliver.
BytesOf(s) == {10 * s + k : k \in 1..MaxSegments}

\* What a session's recorder and segment buffer are.
RecorderOf(sess) == <<sess.phase, sess.stopCalls, sess.recordedChunks, sess.delivered>>

\* C20: every byte of an artifact, and of a segment buffer, was delivered by
\* the recorder of the artifact's own session; a step that changes the
\* recorder or the segment buffer of a session changes no other session, so
\* no timer or callback of an earlier session stops a later session's
\* recorder or appends to its buffer; a stop is requested of a session only
\* by its own deferred stop timer.
C20_SessionsAreIsolated ==
    /\ [](\A u \in DOMAIN urls :
             \A i \in DOMAIN urls[u].blob.data :
                 urls[u].blob.data[i] \in BytesOf(urls[u].session))
    /\ [](\A s \in Started :
             \A i \in DOMAIN Flatten(sessions[s].recordedChunks) :
                 Flatten(sessions[s].recordedChunks)[i] \in BytesOf(s))
    /\ [][\A s \in Started :
             RecorderOf(sessions'[s]) # RecorderOf(sessions[s]) =>
                 /\ \A e \in Started \ {s} : sessions'[e] = sessions[e]
                 /\ sessions'[s].stopCalls # sessions[s].stopCalls =>
                        StopTimerFires(s)]_vars
    /\ [][\A e \in Started :
             StopTimerFires(e) =>
                 \A s \in Started \ {e} : sessions'[s] = sessions[s]]_vars

\* The deferred stop timer of the first session, whose recorder went
\* inactive on its own, has run while the second session records.
C20_Witness ==
    /\ Last = 2
    /\ sessions[1].phase = "stopped"
    /\ sessions[1].stopCalls = 0
    /\ ~TimerPending(1)
    /\ sessions[2].phase = "recording"
    /\ sessions[2].elapsed > 0
    /\ sessions[2].recordedChunks = <<<<21>>>>

====
